---------------------------- MODULE Spec2Model ----------------------------
(***************************************************************************)
(* ElCare: the real-time monitor (monitor.py) reading the event log that   *)
(* the producers (sim.py, 2hrs_ano.py, conf_em.py) append to.              *)
(*                                                                         *)
(* A timestamp is a record [hour, minute]; hours are counted from the      *)
(* first hour of the log's day, minutes are 0 or 30.  A row of the CSV is  *)
(* [timestamp, device, power]; device "" is what pandas reads back as NaN  *)
(* (a heartbeat row).  The hourly table is a sequence of bucket records.   *)
(*                                                                         *)
(* The dashboard (app.py) is modelled by the record app: the processes    *)
(* dict, sequence_lock, the child processes alive, and the position of    *)
(* each request handler or sequence thread in start_script, stop_script   *)
(* and run_sequence_logic / run_conf_em_logic.                            *)
(***************************************************************************)
EXTENDS Integers, Sequences, FiniteSets, TLC

\* ------------------------------------------------------------------ bounds
\* Hours of the general model are 0..MaxHour.
MaxHour == 2
\* The producers of the general model write at most MaxRows rows in all.
MaxRows == 3
\* At most MaxRuns monitor processes are started, one after the other.
MaxRuns == 2
\* sim.py's loop is followed for at most MaxIterations iterations per run.
MaxIterations == 2
\* At most MaxProducerRuns runs of sim.py, 2hrs_ano.py and conf_em.py.
MaxProducerRuns == 2
\* The dashboard serves at most MaxThreads requests and sequences at a time.
MaxThreads == 2
\* The dashboard spawns at most MaxSpawns child processes in all.
MaxSpawns == 3

\* --------------------------------------------------------------- constants
INACTIVITY_THRESHOLD_HOURS == 3
\* The hard fail-safe threshold of the classifier's contract.  monitor.py
\* has no such constant; the value is the one of the contract's scenario.
HARD_EMERGENCY_HOURS == 7
\* 2hrs_ano.py: the length of the injected anomaly period.
ANOMALY_DURATION_HOURS == 7
\* train.py and inter.py each define their own INACTIVITY_THRESHOLD_HOURS.
TRAIN_INACTIVITY_THRESHOLD_HOURS == 6
INTER_INACTIVITY_THRESHOLD_HOURS == 6
\* conf_em.py: the step between heartbeat entries, and how many it appends.
STEP_MINUTES == 10
EMERGENCY_ENTRIES == 42

\* The devices that write rows in the model.
Devices == {"tv"}
\* The device column as read back by pd.read_csv: "" stands for NaN.
DeviceColumn == Devices \cup {""}

DEVICES(device) ==
    CASE device = "tv" -> 100
      [] device = "kettle" -> 1200
      [] device = "bedroom_light" -> 12
      [] OTHER -> 0

Minutes == {0, 30}

\* The anomaly models the monitor may have loaded: each is a pure function
\* of the feature vector (total_power, active_devices, hour_of_day,
\* inactivity_streak).
Models == {"none", "streak", "power", "night"}

VARIABLES
    csv_exists,            \* os.path.exists(DATA_FILE)
    csv,                   \* the rows of DATA_FILE, in file order
    model,                 \* the model loaded at start-up
    pc,                    \* the monitor's position in its loop
    current_count,         \* len(df) of the DataFrame read on the last tick
    hourly,                \* the table derived on the last processing tick
    last_processed_count,
    alert_history,
    warning_history,
    alerts_log,            \* the records of ALERT_LOG_FILE
    warnings_log,          \* the records of WARNING_LOG_FILE
    written,               \* how many rows the producers have written
    csv_header,            \* whether DATA_FILE has its header line
    log_text,              \* what each log file holds: no file, JSON, other
    idx,                   \* the row the alerts or warnings loop is at
    loaded,                \* the list log_alert / log_warning holds in memory
    runs,                  \* how many monitor processes have been started
    injector,              \* append_anomaly_real_time: position and plan
    producer,              \* sim.py / conf_em.py: the run in progress
    app                    \* app.py: processes, sequence_lock, its threads

vars == <<csv_exists, csv, model, pc, current_count, hourly,
          last_processed_count, alert_history, warning_history, alerts_log,
          warnings_log, written, csv_header, log_text, idx, loaded, runs,
          injector, producer, app>>

\* The state of the notifier's steps, of the process count and of the
\* injector.
notifierVars == <<idx, loaded>>
otherVars == <<runs, injector, producer, app>>

\* ------------------------------------------------------------------ app.py
\* The keys of the processes dict.
ScriptKeys == {"sim", "monitor"}
\* processes[key] is None, or the Popen object of a child (its pid).
None == 0
\* The request handlers and sequence threads that can be live at a time.
Threads == 1..MaxThreads
\* A thread that serves nothing.
IdleThread == [pc |-> "idle", kind |-> "none", key |-> "sim", proc |-> None,
               result |-> "none"]
\* /api/data has not been requested yet.
NoResponse ==
    [status |-> 0, alerts |-> 0, warnings |-> 0, total_anomalies |-> 0,
     content |-> [alerts |-> "absent", warnings |-> "absent"]]

\* ----------------------------------------------------------------- helpers
Min(S) == CHOOSE x \in S : \A y \in S : x <= y
Max(S) == CHOOSE x \in S : \A y \in S : x >= y

RECURSIVE SumSeq(_)
SumSeq(s) == IF s = <<>> THEN 0 ELSE Head(s) + SumSeq(Tail(s))

Row(h, m, device) ==
    [timestamp |-> [hour |-> h, minute |-> m],
     device |-> device,
     power |-> DEVICES(device)]

\* The timestamp text of a row that pd.to_datetime cannot parse.
Unparsable == [hour |-> -1, minute |-> -1]

\* ts.dt.floor("h"): the minutes are dropped, the hour is the bucket's key.
FloorHour(ts) == ts.hour

\* Timestamp.isoformat() of an hour-aligned timestamp: the date, "T", the
\* time of day.
IsoFormat(h) == [date |-> h \div 24, sep |-> "T", time |-> h % 24]

\* str() of the same timestamp: a space where isoformat() has "T".
StrFormat(h) == [date |-> h \div 24, sep |-> " ", time |-> h % 24]

\* ------------------------------------------------------------ process_data
\* pd.date_range(start, end, freq="h"): every hour from start to end.
FullRange(lo, hi) == [k \in 1..(hi - lo + 1) |-> lo + k - 1]

\* hourly_groups["power"].sum() for one hour, 0 (fillna) when it has no row.
TotalPower(d, h) ==
    SumSeq([i \in 1..Len(d) |->
              IF FloorHour(d[i].timestamp) = h THEN d[i].power ELSE 0])

\* ActiveDevices as nunique(dropna=False) counts: NaN is one more value.
ActiveDevicesCountingNaN(d, h) ==
    Cardinality({d[i].device : i \in {j \in 1..Len(d) :
                     FloorHour(d[j].timestamp) = h}})

\* hourly_groups["device"].nunique() for one hour: NaN is not counted.
ActiveDevices(d, h) ==
    Cardinality({d[i].device : i \in {j \in 1..Len(d) :
                     FloorHour(d[j].timestamp) = h}} \ {""})

\* RollingSum as rolling(window, min_periods=1, center=True) computes it:
\* the window lies around position k.
RollingSumCentered(inactive, k, window) ==
    LET half == window \div 2
        first == Max({1, k - half})
        last == Min({Len(inactive), k + half})
    IN SumSeq([j \in 1..(last - first + 1) |-> inactive[first + j - 1]])

\* RollingSum over a window one bucket longer than the one it is given.
RollingSumWider(inactive, k, window) ==
    SumSeq([j \in 1..(k - Max({1, k - window}) + 1) |->
              inactive[Max({1, k - window}) + j - 1]])

\* inactive.rolling(window, min_periods=1).sum() at position k.
RollingSum(inactive, k, window) ==
    SumSeq([j \in 1..(k - Max({1, k - window + 1}) + 1) |->
              inactive[Max({1, k - window + 1}) + j - 1]])

\* The hours of S in ascending order.
RECURSIVE SortedHours(_)
SortedHours(S) ==
    IF S = {} THEN <<>> ELSE <<Min(S)>> \o SortedHours(S \ {Min(S)})

\* Timeline without the reindex on the full range: only the hours that
\* have rows, as groupby alone gives them.
TimelineOfGroups(d) ==
    SortedHours({FloorHour(d[i].timestamp) : i \in 1..Len(d)})

\* df["hour"].min() .. df["hour"].max() as the index of the hourly table.
Timeline(d) ==
    LET hours == {FloorHour(d[i].timestamp) : i \in 1..Len(d)}
    IN FullRange(Min(hours), Max(hours))

process_data(d) ==
    IF d = <<>> THEN <<>>
    ELSE
      LET full_range == Timeline(d)
          active(k) == ActiveDevices(d, full_range[k])
          inactive == [k \in 1..Len(full_range) |->
                         IF active(k) = 0 THEN 1 ELSE 0]
      IN [k \in 1..Len(full_range) |->
            [hour |-> full_range[k],
             total_power |-> TotalPower(d, full_range[k]),
             active_devices |-> active(k),
             hour_of_day |-> full_range[k] % 24,
             inactive |-> inactive[k],
             inactivity_streak |->
                 RollingSum(inactive, k, INACTIVITY_THRESHOLD_HOURS)]]

\* ----------------------------------------------------- train.py, inter.py
\* The hourly table of train.py, the one the model is fitted on.
train_hourly(d) ==
    IF d = <<>> THEN <<>>
    ELSE
      LET full_range == Timeline(d)
          active(k) == ActiveDevices(d, full_range[k])
          inactive == [k \in 1..Len(full_range) |->
                         IF active(k) = 0 THEN 1 ELSE 0]
      IN [k \in 1..Len(full_range) |->
            [hour |-> full_range[k],
             total_power |-> TotalPower(d, full_range[k]),
             active_devices |-> active(k),
             hour_of_day |-> full_range[k] % 24,
             inactive |-> inactive[k],
             inactivity_streak |->
                 RollingSum(inactive, k, TRAIN_INACTIVITY_THRESHOLD_HOURS)]]

\* The hourly table of inter.py, the batch inference on the same file.
inter_hourly(d) ==
    IF d = <<>> THEN <<>>
    ELSE
      LET full_range == Timeline(d)
          active(k) == ActiveDevices(d, full_range[k])
          inactive == [k \in 1..Len(full_range) |->
                         IF active(k) = 0 THEN 1 ELSE 0]
      IN [k \in 1..Len(full_range) |->
            [hour |-> full_range[k],
             total_power |-> TotalPower(d, full_range[k]),
             active_devices |-> active(k),
             hour_of_day |-> full_range[k] % 24,
             inactive |-> inactive[k],
             inactivity_streak |->
                 RollingSum(inactive, k, INTER_INACTIVITY_THRESHOLD_HOURS)]]

\* hourly[FEATURES]: the vector the model is fitted on and predicts from.
FEATURES(row) ==
    <<row.total_power, row.active_devices, row.hour_of_day,
      row.inactivity_streak>>

\* ----------------------------------------------------------- run_inference
\* model.predict(X) on one row: -1 is anomalous, 1 is normal.
Predict(m, b) ==
    LET anomalous ==
          CASE m = "none" -> FALSE
            [] m = "streak" -> b.inactivity_streak >= 2
            [] m = "power" -> b.total_power > DEVICES("tv")
            [] m = "night" -> b.hour_of_day < 2
    IN IF anomalous THEN -1 ELSE 1

\* WarningFlag with "at least one condition" in place of "only one".
WarningFlagEither(condition_ml_anomaly, condition_inactivity) ==
    condition_ml_anomaly \/ condition_inactivity

WarningFlag(condition_ml_anomaly, condition_inactivity) ==
    (condition_ml_anomaly /\ ~condition_inactivity)
    \/ (~condition_ml_anomaly /\ condition_inactivity)

AlertFlag(condition_ml_anomaly, condition_inactivity) ==
    condition_ml_anomaly /\ condition_inactivity

run_inference(h, m) ==
    [k \in 1..Len(h) |->
       LET anomaly == Predict(m, h[k])
           condition_ml_anomaly == (anomaly = -1)
           condition_inactivity ==
               h[k].inactivity_streak >= INACTIVITY_THRESHOLD_HOURS
       IN [hour |-> h[k].hour,
           total_power |-> h[k].total_power,
           active_devices |-> h[k].active_devices,
           hour_of_day |-> h[k].hour_of_day,
           inactive |-> h[k].inactive,
           inactivity_streak |-> h[k].inactivity_streak,
           anomaly |-> anomaly,
           warning |-> WarningFlag(condition_ml_anomaly, condition_inactivity),
           alert |-> AlertFlag(condition_ml_anomaly, condition_inactivity)]]

\* display_status: the status level of one row.
Status(row) ==
    IF row.alert THEN "EMERGENCY"
    ELSE IF row.warning THEN "WARNING"
    ELSE "NORMAL"

\* --------------------------------------------------- log_alert, log_warning
alert_data(row) ==
    [alert_hour |-> IsoFormat(row.hour),
     total_power |-> row.total_power,
     active_devices |-> row.active_devices,
     inactivity_streak |-> row.inactivity_streak]

warning_data(row) ==
    [warning_hour |-> IsoFormat(row.hour),
     total_power |-> row.total_power,
     active_devices |-> row.active_devices,
     inactivity_streak |-> row.inactivity_streak,
     ml_anomaly |-> (row.anomaly = -1),
     high_inactivity |->
         (row.inactivity_streak >= INACTIVITY_THRESHOLD_HOURS)]

\* already_alerted comparing the logged isoformat() string with str() of
\* the hour.
already_alerted_str(alert_hour, history) ==
    \E i \in 1..Len(history) : history[i].alert_hour = StrFormat(alert_hour)

already_alerted(alert_hour, history) ==
    \E i \in 1..Len(history) : history[i].alert_hour = IsoFormat(alert_hour)

\* already_warned with one dedup history for both severities: an hour
\* already in alert_history counts as warned.
already_warned_any_severity(warning_hour, history) ==
    \/ \E i \in 1..Len(history) :
           history[i].warning_hour = IsoFormat(warning_hour)
    \/ \E i \in 1..Len(alert_history) :
           alert_history[i].alert_hour = IsoFormat(warning_hour)

already_warned(warning_hour, history) ==
    \E i \in 1..Len(history) :
        history[i].warning_hour = IsoFormat(warning_hour)

\* The loop over hourly[hourly["alert"]]: the records log_alert appends, in
\* table order, starting at row k with the history as it is by then.
RECURSIVE AlertLoop(_, _, _)
AlertLoop(h, k, history) ==
    IF k > Len(h) THEN <<>>
    ELSE IF h[k].alert /\ ~already_alerted(h[k].hour, history)
         THEN <<alert_data(h[k])>>
              \o AlertLoop(h, k + 1, Append(history, alert_data(h[k])))
         ELSE AlertLoop(h, k + 1, history)

\* WarningLoop evaluating the most recent bucket only.
WarningLoopLatestOnly(h, k, history) ==
    IF h # <<>> /\ h[Len(h)].warning
       /\ ~already_warned(h[Len(h)].hour, history)
    THEN <<warning_data(h[Len(h)])>>
    ELSE <<>>

RECURSIVE WarningLoop(_, _, _)
WarningLoop(h, k, history) ==
    IF k > Len(h) THEN <<>>
    ELSE IF h[k].warning /\ ~already_warned(h[k].hour, history)
         THEN <<warning_data(h[k])>>
              \o WarningLoop(h, k + 1, Append(history, warning_data(h[k])))
         ELSE WarningLoop(h, k + 1, history)

\* LoadLog starting from [] whatever the file holds.
LoadLogFresh(text, log) == <<>>

\* The list log_alert / log_warning starts from: json.load of the file when
\* it exists, [] when it does not.
LoadLog(text, log) == IF text = "absent" THEN <<>> ELSE log

\* json.load raises on content that is not JSON.
JsonLoadRaises(text) == text \notin {"absent", "json"}

\* pd.read_csv raises EmptyDataError on a file without a header line.
ReadCsvRaises(header) == ~header

\* pd.to_datetime raises on a timestamp it cannot parse.
ToDatetimeRaises(d) == \E i \in 1..Len(d) : d[i].timestamp = Unparsable

\* The count test with "differs" in place of "greater".
HasNewDataDiffers(count, last) == count # last

\* if current_count > last_processed_count
HasNewData(count, last) == count > last

\* ------------------------------------------------------------------- state
Init ==
    /\ csv_exists = FALSE
    /\ csv = <<>>
    /\ model \in Models
    /\ pc = "poll"
    /\ current_count = 0
    /\ hourly = <<>>
    /\ last_processed_count = 0
    /\ alert_history = <<>>
    /\ warning_history = <<>>
    /\ alerts_log = <<>>
    /\ warnings_log = <<>>
    /\ written = 0
    /\ csv_header = FALSE
    /\ log_text = [alerts |-> "absent", warnings |-> "absent"]
    /\ idx = 0
    /\ loaded = <<>>
    /\ runs = 1
    /\ injector = [pc |-> "off", anomaly_start |-> 0, anomaly_end |-> 0,
                   current_time |-> [hour |-> 0, minute |-> 0]]
    /\ producer = [running |-> "none", runs |-> 0, iteration |-> 0,
                   simulated_time |-> [hour |-> 0, minute |-> 0]]
    /\ app = [processes |-> [key \in ScriptKeys |-> None],
              sequence_lock |-> FALSE,
              children |-> {},
              spawned |-> 0,
              threads |-> [t \in Threads |-> IdleThread],
              response |-> NoResponse]

\* ---------------------------------------------------------------- producers
\* Whether timestamp a is not later than timestamp b.
NotLater(a, b) ==
    a.hour < b.hour \/ (a.hour = b.hour /\ a.minute <= b.minute)

\* df["timestamp"].max(): the latest timestamp of the rows, wherever it is.
MaxTimestamp(d) ==
    CHOOSE t \in {d[i].timestamp : i \in 1..Len(d)} :
        \A i \in 1..Len(d) : NotLater(d[i].timestamp, t)

\* append_to_csv: a producer appends one row, creating the file if needed.
\* A producer continues from the last timestamp of the file and only moves
\* forward; the rows of one step share their timestamp.
AppendRow ==
    /\ written < MaxRows
    /\ csv_exists => csv_header
    /\ written' = written + 1
    /\ \E h \in 0..MaxHour, m \in Minutes, device \in DeviceColumn :
           /\ csv # <<>> => NotLater(csv[Len(csv)].timestamp,
                                     Row(h, m, device).timestamp)
           /\ csv' = Append(csv, Row(h, m, device))
    /\ csv_exists' = TRUE
    /\ csv_header' = TRUE
    /\ UNCHANGED <<model, pc, current_count, hourly, last_processed_count,
                   alert_history, warning_history, alerts_log, warnings_log,
                   log_text, notifierVars, otherVars>>

\* The data file is removed; the next producer starts a new one.
RemoveFile ==
    /\ csv_exists
    /\ csv_exists' = FALSE
    /\ csv' = <<>>
    /\ csv_header' = FALSE
    /\ UNCHANGED <<model, pc, current_count, hourly, last_processed_count,
                   alert_history, warning_history, alerts_log, warnings_log,
                   written, log_text, notifierVars, otherVars>>

\* ------------------------------------------------------- monitor_continuous
\* The top of the loop: wait for the file, read it, and when it has more
\* rows than were processed, derive the table.
MonitorPoll ==
    /\ pc = "poll"
    /\ IF ~csv_exists
       THEN UNCHANGED <<current_count, hourly, pc>>
       ELSE IF ReadCsvRaises(csv_header)
       THEN /\ pc' = "crashed"
            /\ UNCHANGED <<current_count, hourly>>
       ELSE /\ current_count' = Len(csv)
            /\ IF HasNewData(Len(csv), last_processed_count)
               THEN IF ToDatetimeRaises(csv)
                    THEN /\ pc' = "crashed"
                         /\ UNCHANGED hourly
                    ELSE /\ hourly' = run_inference(process_data(csv), model)
                         /\ pc' = "alerts"
               ELSE UNCHANGED <<hourly, pc>>
    /\ UNCHANGED <<csv_exists, csv, model, last_processed_count,
                   alert_history, warning_history, alerts_log, warnings_log,
                   written, csv_header, log_text, notifierVars, otherVars>>

\* The loop over the alert rows, each new one through log_alert.
MonitorAlerts ==
    /\ pc = "alerts"
    /\ log_text.alerts \in {"absent", "json"}
    /\ IF hourly = <<>>
       THEN /\ pc' = "crashed"
            /\ UNCHANGED <<alert_history, alerts_log, log_text>>
       ELSE LET new == AlertLoop(hourly, 1, alert_history)
            IN /\ alert_history' = alert_history \o new
               /\ alerts_log' = LoadLog(log_text.alerts, alerts_log) \o new
               /\ log_text' = IF new = <<>> THEN log_text
                              ELSE [log_text EXCEPT !.alerts = "json"]
               /\ pc' = "warnings"
    /\ UNCHANGED <<csv_exists, csv, model, current_count, hourly,
                   last_processed_count, warning_history, warnings_log,
                   written, csv_header, notifierVars, otherVars>>

\* The loop over the warning rows, each new one through log_warning.
MonitorWarnings ==
    /\ pc = "warnings"
    /\ log_text.warnings \in {"absent", "json"}
    /\ LET new == WarningLoop(hourly, 1, warning_history)
       IN /\ warning_history' = warning_history \o new
          /\ warnings_log' = LoadLog(log_text.warnings, warnings_log) \o new
          /\ log_text' = IF new = <<>> THEN log_text
                         ELSE [log_text EXCEPT !.warnings = "json"]
    /\ pc' = "status"
    /\ UNCHANGED <<csv_exists, csv, model, current_count, hourly,
                   last_processed_count, alert_history, alerts_log, written,
                   csv_header, notifierVars, otherVars>>

\* The status line, then the counter; the loop sleeps and polls again.
MonitorStatus ==
    /\ pc = "status"
    /\ last_processed_count' = current_count
    /\ pc' = "poll"
    /\ UNCHANGED <<csv_exists, csv, model, current_count, hourly,
                   alert_history, warning_history, alerts_log, warnings_log,
                   written, csv_header, log_text, notifierVars, otherVars>>

\* One row per hour, each delivered once the monitor has processed the one
\* before: the hours 0..HARD_EMERGENCY_HOURS, a device row or a heartbeat.
HourlyDelivery ==
    /\ pc = "poll"
    /\ last_processed_count = Len(csv)
    /\ Len(csv) < 1 + HARD_EMERGENCY_HOURS
    /\ \E device \in DeviceColumn :
           csv' = Append(csv, Row(Len(csv), 0, device))
    /\ csv_exists' = TRUE
    /\ csv_header' = TRUE
    /\ written' = written + 1
    /\ UNCHANGED <<model, pc, current_count, hourly, last_processed_count,
                   alert_history, warning_history, alerts_log, warnings_log,
                   log_text, notifierVars, otherVars>>

\* to_csv(filename, mode='w') on a file that is not there, first half: the
\* file is opened, which creates it with nothing in it.
CreateOpen ==
    /\ ~csv_exists
    /\ written < MaxRows
    /\ csv_exists' = TRUE
    /\ csv_header' = FALSE
    /\ csv' = <<>>
    /\ UNCHANGED <<model, pc, current_count, hourly, last_processed_count,
                   alert_history, warning_history, alerts_log, warnings_log,
                   written, log_text, notifierVars, otherVars>>

\* Second half: the header line and the first row are written.
CreateWrite ==
    /\ csv_exists
    /\ ~csv_header
    /\ csv_header' = TRUE
    /\ \E h \in 0..MaxHour, m \in Minutes, device \in DeviceColumn :
           csv' = <<Row(h, m, device)>>
    /\ written' = written + 1
    /\ UNCHANGED <<csv_exists, model, pc, current_count, hourly,
                   last_processed_count, alert_history, warning_history,
                   alerts_log, warnings_log, log_text, notifierVars,
                   otherVars>>

\* A producer appends to the file it finds.
AppendToFile == csv_exists /\ AppendRow

\* The data file is reset to its header line: a history with no data rows.
ClearFile ==
    /\ csv_exists
    /\ csv_header
    /\ csv # <<>>
    /\ csv' = <<>>
    /\ UNCHANGED <<csv_exists, csv_header, model, pc, current_count, hourly,
                   last_processed_count, alert_history, warning_history,
                   alerts_log, warnings_log, written, log_text, notifierVars,
                   otherVars>>

\* A writer appends a row whose timestamp text is not a timestamp.
AppendBadRow ==
    /\ csv_exists
    /\ csv_header
    /\ written < MaxRows
    /\ written' = written + 1
    /\ \E device \in DeviceColumn :
           csv' = Append(csv, [timestamp |-> Unparsable, device |-> device,
                               power |-> DEVICES(device)])
    /\ UNCHANGED <<csv_exists, csv_header, model, pc, current_count, hourly,
                   last_processed_count, alert_history, warning_history,
                   alerts_log, warnings_log, log_text, notifierVars,
                   otherVars>>

\* The rows after position k that the alerts loop would log.
NewAlertRows(k) ==
    {j \in (k + 1)..Len(hourly) :
        hourly[j].alert /\ ~already_alerted(hourly[j].hour, alert_history)}

\* The rows after position k that the warnings loop would log.
NewWarningRows(k) ==
    {j \in (k + 1)..Len(hourly) :
        hourly[j].warning
        /\ ~already_warned(hourly[j].hour, warning_history)}

\* The alerts loop, one iteration: the next alert row that is not in the
\* history enters log_alert, which first appends it to alert_history; with
\* no such row left the loop is over.
AlertsLoopStep ==
    /\ pc = "alerts"
    /\ IF hourly = <<>>
       THEN /\ pc' = "crashed"
            /\ UNCHANGED <<alert_history, idx>>
       ELSE IF NewAlertRows(idx) = {}
       THEN /\ pc' = "warnings"
            /\ idx' = 0
            /\ UNCHANGED alert_history
       ELSE /\ idx' = Min(NewAlertRows(idx))
            /\ alert_history' = Append(alert_history, alert_data(hourly[idx']))
            /\ pc' = "alert_read"
    /\ UNCHANGED <<csv_exists, csv, model, current_count, hourly,
                   last_processed_count, warning_history, alerts_log,
                   warnings_log, written, csv_header, log_text, loaded,
                   otherVars>>

\* log_alert: the existing log is loaded and the record appended in memory.
LogAlertRead ==
    /\ pc = "alert_read"
    /\ IF JsonLoadRaises(log_text.alerts)
       THEN /\ pc' = "crashed"
            /\ UNCHANGED loaded
       ELSE /\ loaded' = Append(LoadLog(log_text.alerts, alerts_log),
                                alert_data(hourly[idx]))
            /\ pc' = "alert_open"
    /\ UNCHANGED <<csv_exists, csv, model, current_count, hourly,
                   last_processed_count, alert_history, warning_history,
                   alerts_log, warnings_log, written, csv_header, log_text,
                   idx, otherVars>>

\* log_alert: open(ALERT_LOG_FILE, 'w') empties the file.
LogAlertOpen ==
    /\ pc = "alert_open"
    /\ alerts_log' = <<>>
    /\ log_text' = [log_text EXCEPT !.alerts = "empty"]
    /\ pc' = "alert_dump"
    /\ UNCHANGED <<csv_exists, csv, model, current_count, hourly,
                   last_processed_count, alert_history, warning_history,
                   warnings_log, written, csv_header, notifierVars,
                   otherVars>>

\* log_alert: json.dump writes the list; the call returns to the loop.
LogAlertDump ==
    /\ pc = "alert_dump"
    /\ alerts_log' = loaded
    /\ log_text' = [log_text EXCEPT !.alerts = "json"]
    /\ loaded' = <<>>
    /\ pc' = "alerts"
    /\ UNCHANGED <<csv_exists, csv, model, current_count, hourly,
                   last_processed_count, alert_history, warning_history,
                   warnings_log, written, csv_header, idx, otherVars>>

\* The warnings loop, one iteration.
WarningsLoopStep ==
    /\ pc = "warnings"
    /\ IF NewWarningRows(idx) = {}
       THEN /\ pc' = "status"
            /\ idx' = 0
            /\ UNCHANGED warning_history
       ELSE /\ idx' = Min(NewWarningRows(idx))
            /\ warning_history' =
                   Append(warning_history, warning_data(hourly[idx']))
            /\ pc' = "warning_read"
    /\ UNCHANGED <<csv_exists, csv, model, current_count, hourly,
                   last_processed_count, alert_history, alerts_log,
                   warnings_log, written, csv_header, log_text, loaded,
                   otherVars>>

\* log_warning: the existing log is loaded, the record appended in memory.
LogWarningRead ==
    /\ pc = "warning_read"
    /\ IF JsonLoadRaises(log_text.warnings)
       THEN /\ pc' = "crashed"
            /\ UNCHANGED loaded
       ELSE /\ loaded' = Append(LoadLog(log_text.warnings, warnings_log),
                                warning_data(hourly[idx]))
            /\ pc' = "warning_open"
    /\ UNCHANGED <<csv_exists, csv, model, current_count, hourly,
                   last_processed_count, alert_history, warning_history,
                   alerts_log, warnings_log, written, csv_header, log_text,
                   idx, otherVars>>

\* log_warning: open(WARNING_LOG_FILE, 'w') empties the file.
LogWarningOpen ==
    /\ pc = "warning_open"
    /\ warnings_log' = <<>>
    /\ log_text' = [log_text EXCEPT !.warnings = "empty"]
    /\ pc' = "warning_dump"
    /\ UNCHANGED <<csv_exists, csv, model, current_count, hourly,
                   last_processed_count, alert_history, warning_history,
                   alerts_log, written, csv_header, notifierVars, otherVars>>

\* log_warning: json.dump writes the list; the call returns to the loop.
LogWarningDump ==
    /\ pc = "warning_dump"
    /\ warnings_log' = loaded
    /\ log_text' = [log_text EXCEPT !.warnings = "json"]
    /\ loaded' = <<>>
    /\ pc' = "warnings"
    /\ UNCHANGED <<csv_exists, csv, model, current_count, hourly,
                   last_processed_count, alert_history, warning_history,
                   alerts_log, written, csv_header, idx, otherVars>>

\* The monitor process is terminated, wherever it is.
Terminate ==
    /\ pc \notin {"dead", "crashed"}
    /\ pc' = "dead"
    /\ UNCHANGED <<csv_exists, csv, model, current_count, hourly,
                   last_processed_count, alert_history, warning_history,
                   alerts_log, warnings_log, written, csv_header, log_text,
                   notifierVars, otherVars>>

\* monitor.py is started again: the tracking state is new, the files are
\* as the last process left them.
Restart ==
    /\ pc \in {"dead", "crashed"}
    /\ runs < MaxRuns
    /\ runs' = runs + 1
    /\ pc' = "poll"
    /\ current_count' = 0
    /\ hourly' = <<>>
    /\ last_processed_count' = 0
    /\ alert_history' = <<>>
    /\ warning_history' = <<>>
    /\ idx' = 0
    /\ loaded' = <<>>
    /\ UNCHANGED <<csv_exists, csv, model, alerts_log, warnings_log, written,
                   csv_header, log_text, injector, producer, app>>

\* sim.py writes the first entry of the file the injector continues.
SimFirstEntry ==
    /\ injector.pc = "off"
    /\ csv = <<>>
    /\ AppendRow

\* timedelta(minutes=...) forward by one position of the half-hour grid.
NextStep(ts) ==
    IF ts.minute = 0 THEN [hour |-> ts.hour, minute |-> 30]
    ELSE [hour |-> ts.hour + 1, minute |-> 0]

\* inject_future_anomaly: the period is planned from the last timestamp of
\* the file, its start put back to the full hour; append_anomaly_real_time
\* then starts from the entry after the last timestamp.
inject_future_anomaly(d) ==
    LET last_timestamp == MaxTimestamp(d)
        anomaly_start == FloorHour(NextStep(last_timestamp))
    IN [pc |-> "run",
        anomaly_start |-> anomaly_start,
        anomaly_end |-> anomaly_start + ANOMALY_DURATION_HOURS,
        current_time |-> NextStep(last_timestamp)]

\* 2hrs_ano.py is started on a file that has rows.
PlanAnomaly ==
    /\ injector.pc = "off"
    /\ csv_exists
    /\ csv # <<>>
    /\ injector' = inject_future_anomaly(csv)
    /\ UNCHANGED <<csv_exists, csv, model, pc, current_count, hourly,
                   last_processed_count, alert_history, warning_history,
                   alerts_log, warnings_log, written, csv_header, log_text,
                   notifierVars, runs, producer, app>>

\* current_time >= anomaly_start and current_time < anomaly_end
IsAnomaly(inj) ==
    /\ inj.current_time.hour >= inj.anomaly_start
    /\ inj.current_time.hour < inj.anomaly_end

\* append_anomaly_real_time, one iteration of its loop: the devices active
\* at current_time, none of them inside the anomaly period, are appended
\* as rows (nothing is appended when there is none), and the time moves on.
InjectorStep ==
    /\ injector.pc = "run"
    /\ IF NotLater(injector.current_time,
                   [hour |-> injector.anomaly_end + 2, minute |-> 0])
       THEN /\ \E active_devices \in SUBSET Devices :
                  /\ IsAnomaly(injector) => active_devices = {}
                  /\ csv' = IF active_devices = {} THEN csv
                            ELSE Append(csv,
                                   Row(injector.current_time.hour,
                                       injector.current_time.minute,
                                       CHOOSE device \in active_devices :
                                           TRUE))
            /\ injector' = [injector EXCEPT
                               !.current_time = NextStep(@)]
       ELSE /\ injector' = [injector EXCEPT !.pc = "done"]
            /\ UNCHANGED csv
    /\ UNCHANGED <<csv_exists, model, pc, current_count, hourly,
                   last_processed_count, alert_history, warning_history,
                   alerts_log, warnings_log, written, csv_header, log_text,
                   notifierVars, runs, producer, app>>

\* ------------------------------------------- sim.py, conf_em.py, 2hrs_ano.py
\* datetime.now() as a producer may read it: on the hour or not, at the
\* first hour of the day or a later one.
Now == {[hour |-> h, minute |-> m] : h \in {0, 1}, m \in Minutes}

\* sim.py's start with datetime.now() whatever the file holds.
SimulatedTimeFromNow(exists, header, d, now) == now

\* sim.py's simulated_time at start: the entry after the file's last
\* timestamp when the file can be read and has rows, datetime.now() else.
SimulatedTimeAtStart(exists, header, d, now) ==
    IF exists /\ ~ReadCsvRaises(header) /\ d # <<>> /\ ~ToDatetimeRaises(d)
    THEN NextStep(MaxTimestamp(d))
    ELSE now

\* sim.py is started; no other producer is running.
SimStart ==
    /\ producer.running = "none"
    /\ injector.pc = "off"
    /\ producer.runs < MaxProducerRuns
    /\ \E now \in Now :
           producer' = [running |-> "sim",
                        runs |-> producer.runs + 1,
                        iteration |-> 0,
                        simulated_time |->
                            SimulatedTimeAtStart(csv_exists, csv_header,
                                                 csv, now)]
    /\ UNCHANGED <<csv_exists, csv, model, pc, current_count, hourly,
                   last_processed_count, alert_history, warning_history,
                   alerts_log, warnings_log, written, csv_header, log_text,
                   notifierVars, runs, injector, app>>

\* sim.py, one iteration of its loop: the devices active at simulated_time
\* are appended as rows (nothing when there is none), the time moves on.
SimStep ==
    /\ producer.running = "sim"
    /\ producer.iteration < MaxIterations
    /\ \E active_devices \in SUBSET Devices :
           IF active_devices = {}
           THEN UNCHANGED <<csv_exists, csv, csv_header>>
           ELSE /\ csv' = Append(csv,
                            Row(producer.simulated_time.hour,
                                producer.simulated_time.minute,
                                CHOOSE device \in active_devices : TRUE))
                /\ csv_exists' = TRUE
                /\ csv_header' = (IF csv_exists THEN csv_header ELSE TRUE)
    /\ producer' = [producer EXCEPT !.simulated_time = NextStep(@),
                                    !.iteration = @ + 1]
    /\ UNCHANGED <<model, pc, current_count, hourly, last_processed_count,
                   alert_history, warning_history, alerts_log, warnings_log,
                   written, log_text, notifierVars, runs, injector, app>>

\* sim.py is interrupted or terminated.
SimStop ==
    /\ producer.running = "sim"
    /\ producer' = [producer EXCEPT !.running = "none"]
    /\ UNCHANGED <<csv_exists, csv, model, pc, current_count, hourly,
                   last_processed_count, alert_history, warning_history,
                   alerts_log, warnings_log, written, csv_header, log_text,
                   notifierVars, runs, injector, app>>

\* The entries of the model's half-hour grid that cover the period of
\* conf_em.py's EMERGENCY_ENTRIES entries.
GridEntries == (EMERGENCY_ENTRIES * STEP_MINUTES) \div Max(Minutes)

\* emergency_entries: rows with a timestamp and no device, one per step
\* from the entry after last_timestamp (NaT stays NaT).
RECURSIVE EmergencyEntries(_, _)
EmergencyEntries(current_time, n) ==
    IF n = 0 THEN <<>>
    ELSE <<[timestamp |-> current_time, device |-> "", power |-> 0]>>
           \o EmergencyEntries(IF current_time = Unparsable THEN Unparsable
                               ELSE NextStep(current_time), n - 1)

\* force_emergency, the whole run: the starter row when the file is
\* missing, then the heartbeat entries appended after the last timestamp.
ForceEmergency ==
    /\ producer.running = "none"
    /\ injector.pc = "off"
    /\ producer.runs < MaxProducerRuns
    /\ producer' = [producer EXCEPT !.runs = @ + 1]
    /\ IF ~csv_exists
       THEN \E now \in Now :
              /\ csv' = <<Row(now.hour, now.minute, "bedroom_light")>>
                          \o EmergencyEntries(NextStep(now), GridEntries)
              /\ csv_exists' = TRUE
              /\ csv_header' = TRUE
       ELSE IF ReadCsvRaises(csv_header) \/ ToDatetimeRaises(csv)
       THEN UNCHANGED <<csv_exists, csv, csv_header>>
       ELSE LET last_timestamp ==
                    IF csv = <<>> THEN Unparsable ELSE MaxTimestamp(csv)
            IN /\ csv' = csv \o EmergencyEntries(
                                   IF last_timestamp = Unparsable
                                   THEN Unparsable
                                   ELSE NextStep(last_timestamp),
                                   GridEntries)
               /\ UNCHANGED <<csv_exists, csv_header>>
    /\ UNCHANGED <<model, pc, current_count, hourly, last_processed_count,
                   alert_history, warning_history, alerts_log, warnings_log,
                   written, log_text, notifierVars, runs, injector, app>>

\* 2hrs_ano.py is started; no other producer is running.  Without a file,
\* or with a file without rows, it returns at once.
StartInjector ==
    /\ producer.running = "none"
    /\ injector.pc = "off"
    /\ producer.runs < MaxProducerRuns
    /\ IF csv_exists /\ ~ReadCsvRaises(csv_header) /\ csv # <<>>
          /\ ~ToDatetimeRaises(csv)
       THEN /\ injector' = inject_future_anomaly(csv)
            /\ producer' = [producer EXCEPT !.running = "ano_sequence",
                                            !.runs = @ + 1]
       ELSE /\ producer' = [producer EXCEPT !.runs = @ + 1]
            /\ UNCHANGED injector
    /\ UNCHANGED <<csv_exists, csv, model, pc, current_count, hourly,
                   last_processed_count, alert_history, warning_history,
                   alerts_log, warnings_log, written, csv_header, log_text,
                   notifierVars, runs, app>>

\* 2hrs_ano.py has finished its loop and exits.
InjectorExit ==
    /\ producer.running = "ano_sequence"
    /\ injector.pc = "done"
    /\ injector' = [injector EXCEPT !.pc = "off"]
    /\ producer' = [producer EXCEPT !.running = "none"]
    /\ UNCHANGED <<csv_exists, csv, model, pc, current_count, hourly,
                   last_processed_count, alert_history, warning_history,
                   alerts_log, warnings_log, written, csv_header, log_text,
                   notifierVars, runs, app>>

\* ------------------------------------------------------------------ app.py
\* The variables app.py does not touch.
monitorVars == <<csv_exists, csv, model, pc, current_count, hourly,
                 last_processed_count, alert_history, warning_history,
                 alerts_log, warnings_log, written, csv_header, log_text,
                 notifierVars, runs, injector, producer>>

\* The sequences of the dashboard, by the script each runs.
Sequences == {"ano_sequence", "conf_em"}

\* The positions of a sequence thread that holds sequence_lock.
InBody(thread) ==
    thread.kind \in Sequences /\ thread.pc \notin {"idle", "acquire"}

\* An acquire that succeeds whether or not the lock is held.
AcquireAlways(locked) == TRUE

\* sequence_lock.acquire(blocking=False): succeeds when the lock is free.
TryAcquire(locked) == ~locked

\* The function returns: a request handler ends, a sequence goes on with
\* the statement after the call.
Return(thread, next) ==
    IF thread.kind = "control"
    THEN [IdleThread EXCEPT !.result = "done"]
    ELSE [thread EXCEPT !.pc = next, !.proc = None]

\* POST /api/control: start_script(target) or stop_script(target).
Control(t) ==
    /\ app.threads[t].pc = "idle"
    /\ \E action \in {"start", "stop"}, target \in ScriptKeys :
           app' = [app EXCEPT !.threads[t] =
                      [pc |-> IF action = "start" THEN "start_check"
                              ELSE "stop_get",
                       kind |-> "control", key |-> target, proc |-> None,
                       result |-> "none"]]
    /\ UNCHANGED monitorVars

\* POST /api/sequence or /api/conf_em: the thread of run_sequence_logic or
\* run_conf_em_logic is started.
TriggerSequence(t) ==
    /\ app.threads[t].pc = "idle"
    /\ \E script \in Sequences :
           app' = [app EXCEPT !.threads[t] =
                      [pc |-> "acquire", kind |-> script, key |-> "sim",
                       proc |-> None, result |-> "none"]]
    /\ UNCHANGED monitorVars

\* if not sequence_lock.acquire(blocking=False): return
Acquire(t) ==
    /\ app.threads[t].pc = "acquire"
    /\ IF TryAcquire(app.sequence_lock)
       THEN app' = [app EXCEPT !.sequence_lock = TRUE,
                               !.threads[t].pc = "stop_get"]
       ELSE app' = [app EXCEPT !.threads[t] =
                       [IdleThread EXCEPT !.result = "skipped"]]
    /\ UNCHANGED monitorVars

\* start_script: if processes.get(script_key) is None
StartCheck(t) ==
    /\ app.threads[t].pc = "start_check"
    /\ IF app.processes[app.threads[t].key] = None
       THEN app' = [app EXCEPT !.threads[t].pc = "start_popen"]
       ELSE app' = [app EXCEPT !.threads[t] = Return(@, "release")]
    /\ UNCHANGED monitorVars

\* start_script: proc = subprocess.Popen(...)
StartPopen(t) ==
    /\ app.threads[t].pc = "start_popen"
    /\ app.spawned < MaxSpawns
    /\ app' = [app EXCEPT
                 !.spawned = @ + 1,
                 !.children = @ \cup {[pid |-> app.spawned + 1,
                                       key |-> app.threads[t].key]},
                 !.threads[t].proc = app.spawned + 1,
                 !.threads[t].pc = "start_assign"]
    /\ UNCHANGED monitorVars

\* start_script: processes[script_key] = proc; return True
StartAssign(t) ==
    /\ app.threads[t].pc = "start_assign"
    /\ app' = [app EXCEPT
                 !.processes[app.threads[t].key] = app.threads[t].proc,
                 !.threads[t] = Return(@, "release")]
    /\ UNCHANGED monitorVars

\* stop_script: proc = processes.get(script_key); if proc
StopGet(t) ==
    /\ app.threads[t].pc = "stop_get"
    /\ IF app.processes[app.threads[t].key] # None
       THEN app' = [app EXCEPT
                      !.threads[t].proc = app.processes[app.threads[t].key],
                      !.threads[t].pc = "stop_kill"]
       ELSE app' = [app EXCEPT !.threads[t] = Return(@, "run_script")]
    /\ UNCHANGED monitorVars

\* stop_script: SIGTERM, wait, SIGKILL after the timeout: the child is gone
\* (an error for a child already gone is caught).
StopKill(t) ==
    /\ app.threads[t].pc = "stop_kill"
    /\ app' = [app EXCEPT
                 !.children = {c \in @ : c.pid # app.threads[t].proc},
                 !.threads[t].pc = "stop_clear"]
    /\ UNCHANGED monitorVars

\* stop_script: processes[script_key] = None; return True
StopClear(t) ==
    /\ app.threads[t].pc = "stop_clear"
    /\ app' = [app EXCEPT
                 !.processes[app.threads[t].key] = None,
                 !.threads[t] = Return(@, "run_script")]
    /\ UNCHANGED monitorVars

\* subprocess.run([...]) of a sequence: the injector is launched, or the
\* launch raises and the sequence leaves through finally.
RunScript(t) ==
    /\ app.threads[t].pc = "run_script"
    /\ \E raises \in BOOLEAN :
           app' = [app EXCEPT !.threads[t].pc =
                      IF raises THEN "release" ELSE "script_running"]
    /\ UNCHANGED monitorVars

\* The injector exits, subprocess.run returns; start_script("sim") is next.
ScriptExit(t) ==
    /\ app.threads[t].pc = "script_running"
    /\ app' = [app EXCEPT !.threads[t].pc = "start_check"]
    /\ UNCHANGED monitorVars

\* finally: sequence_lock.release()
Release(t) ==
    /\ app.threads[t].pc = "release"
    /\ app' = [app EXCEPT !.sequence_lock = FALSE,
                          !.threads[t] = [IdleThread EXCEPT
                                             !.result = "done"]]
    /\ UNCHANGED monitorVars

\* What a reader can find in a log file: nothing of it, its JSON text, or,
\* once log_alert / log_warning has truncated it, no byte yet or the part
\* of the text that json.dump has written so far.
FileContent(text) ==
    IF text = "empty" THEN {"empty", "partial"} ELSE {text}

\* ReadLog without the try of get_data and without its test of content.
ReadLogUnguarded(content, log) ==
    IF content = "absent" THEN [raised |-> FALSE, entries |-> <<>>]
    ELSE IF content # "json" THEN [raised |-> TRUE, entries |-> <<>>]
    ELSE [raised |-> FALSE, entries |-> log]

\* get_data, the part for one log: the entries the file contributes, and
\* whether an exception leaves the part.
ReadLog(content, log) ==
    IF content = "absent" THEN [raised |-> FALSE, entries |-> <<>>]
    ELSE IF content = "empty" THEN [raised |-> FALSE, entries |-> <<>>]
    ELSE IF JsonLoadRaises(content)
    THEN [raised |-> FALSE, entries |-> <<>>]
    ELSE [raised |-> FALSE, entries |-> log]

\* GET /api/data, served while the monitor runs.
GetData ==
    /\ \E content_alerts \in FileContent(log_text.alerts),
          content_warnings \in FileContent(log_text.warnings) :
           LET alerts == ReadLog(content_alerts, alerts_log)
               warnings == ReadLog(content_warnings, warnings_log)
               content == [alerts |-> content_alerts,
                           warnings |-> content_warnings]
           IN app' = [app EXCEPT !.response =
                  IF alerts.raised \/ warnings.raised
                  THEN [status |-> 500, alerts |-> 0, warnings |-> 0,
                        total_anomalies |-> 0, content |-> content]
                  ELSE [status |-> 200,
                        alerts |-> Len(alerts.entries),
                        warnings |-> Len(warnings.entries),
                        total_anomalies |-> Len(alerts.entries)
                                              + Len(warnings.entries),
                        content |-> content]]
    /\ UNCHANGED monitorVars

\* The event source is append-only.
Next ==
    \/ AppendRow
    \/ MonitorPoll
    \/ MonitorAlerts
    \/ MonitorWarnings
    \/ MonitorStatus

Spec == Init /\ [][Next]_vars

\* The event source may also be removed and started again.
NextRemoval ==
    \/ AppendRow
    \/ RemoveFile
    \/ MonitorPoll
    \/ MonitorAlerts
    \/ MonitorWarnings
    \/ MonitorStatus

SpecRemoval == Init /\ [][NextRemoval]_vars

\* The event source delivers one row per hour, in step with the monitor.
NextHourly ==
    \/ HourlyDelivery
    \/ MonitorPoll
    \/ MonitorAlerts
    \/ MonitorWarnings
    \/ MonitorStatus

SpecHourly == Init /\ [][NextHourly]_vars

\* The data file in every condition the monitor can find it in: missing,
\* just created and still empty, header only, with rows, with a bad row.
NextFile ==
    \/ CreateOpen
    \/ CreateWrite
    \/ AppendToFile
    \/ ClearFile
    \/ AppendBadRow
    \/ MonitorPoll
    \/ MonitorAlerts
    \/ MonitorWarnings
    \/ MonitorStatus

SpecFile == Init /\ [][NextFile]_vars

\* The notifier step by step, with the monitor terminated and started
\* again, fed one row per hour.
NextLog ==
    \/ HourlyDelivery
    \/ MonitorPoll
    \/ AlertsLoopStep
    \/ LogAlertRead
    \/ LogAlertOpen
    \/ LogAlertDump
    \/ WarningsLoopStep
    \/ LogWarningRead
    \/ LogWarningOpen
    \/ LogWarningDump
    \/ MonitorStatus
    \/ Terminate
    \/ Restart

SpecLog == Init /\ [][NextLog]_vars

\* The monitor polling while 2hrs_ano.py continues the file of sim.py.
NextInjector ==
    \/ SimFirstEntry
    \/ PlanAnomaly
    \/ InjectorStep
    \/ MonitorPoll
    \/ MonitorAlerts
    \/ MonitorWarnings
    \/ MonitorStatus

SpecInjector == Init /\ [][NextInjector]_vars

\* sim.py, 2hrs_ano.py and conf_em.py run one at a time on the same file.
NextProducers ==
    \/ SimStart
    \/ SimStep
    \/ SimStop
    \/ ForceEmergency
    \/ StartInjector
    \/ InjectorStep
    \/ InjectorExit

SpecProducers == Init /\ [][NextProducers]_vars

\* The monitor polling while sim.py and conf_em.py run one at a time.
NextEmergency ==
    \/ SimStart
    \/ SimStep
    \/ SimStop
    \/ ForceEmergency
    \/ MonitorPoll
    \/ MonitorAlerts
    \/ MonitorWarnings
    \/ MonitorStatus

SpecEmergency == Init /\ [][NextEmergency]_vars

\* The dashboard: its request handlers and sequence threads interleaved.
NextApp ==
    \/ \E t \in Threads : Control(t)
    \/ \E t \in Threads : TriggerSequence(t)
    \/ \E t \in Threads : Acquire(t)
    \/ \E t \in Threads : StartCheck(t)
    \/ \E t \in Threads : StartPopen(t)
    \/ \E t \in Threads : StartAssign(t)
    \/ \E t \in Threads : StopGet(t)
    \/ \E t \in Threads : StopKill(t)
    \/ \E t \in Threads : StopClear(t)
    \/ \E t \in Threads : RunScript(t)
    \/ \E t \in Threads : ScriptExit(t)
    \/ \E t \in Threads : Release(t)

SpecApp == Init /\ [][NextApp]_vars

\* The sequence threads alone: /api/sequence and /api/conf_em triggered
\* while sequences are under way.
NextSequence ==
    \/ \E t \in Threads : TriggerSequence(t)
    \/ \E t \in Threads : Acquire(t)
    \/ \E t \in Threads : StartCheck(t)
    \/ \E t \in Threads : StartPopen(t)
    \/ \E t \in Threads : StartAssign(t)
    \/ \E t \in Threads : StopGet(t)
    \/ \E t \in Threads : StopKill(t)
    \/ \E t \in Threads : StopClear(t)
    \/ \E t \in Threads : RunScript(t)
    \/ \E t \in Threads : ScriptExit(t)
    \/ \E t \in Threads : Release(t)

SpecSequence == Init /\ [][NextSequence]_vars

\* The dashboard polling /api/data while the monitor notifies step by step.
NextData ==
    \/ HourlyDelivery
    \/ MonitorPoll
    \/ AlertsLoopStep
    \/ LogAlertRead
    \/ LogAlertOpen
    \/ LogAlertDump
    \/ WarningsLoopStep
    \/ LogWarningRead
    \/ LogWarningOpen
    \/ LogWarningDump
    \/ MonitorStatus
    \/ GetData

SpecData == Init /\ [][NextData]_vars

\* ------------------------------------------------------------------ claims
\* The rows the table of the last processing tick was derived from (under
\* Spec and SpecHourly the file only grows).
ProcessedRows == SubSeq(csv, 1, current_count)

\* The table a tick would derive from the file as it is now.
FreshTable == run_inference(process_data(csv), model)

\* The table derived from the rows counted by last_processed_count.
PreviousTable ==
    run_inference(process_data(SubSeq(csv, 1, last_processed_count)), model)

\* The number of consecutive inactive buckets ending at bucket k.
RECURSIVE ConsecutiveInactive(_, _)
ConsecutiveInactive(h, k) ==
    IF k = 0 \/ h[k].inactive = 0 THEN 0
    ELSE 1 + ConsecutiveInactive(h, k - 1)

\* C1: every bucket whose inactivity streak is at least
\* HARD_EMERGENCY_HOURS is classified EMERGENCY (alert), whatever the model
\* reports.  The streak is read both as the table's inactivity_streak
\* column and as the count of consecutive inactive hours ending at the
\* bucket, which the column stands for.
C1_HardInactivityIsEmergency ==
    \A k \in 1..Len(hourly) :
        (\/ hourly[k].inactivity_streak >= HARD_EMERGENCY_HOURS
         \/ ConsecutiveInactive(hourly, k) >= HARD_EMERGENCY_HOURS)
        => hourly[k].alert

\* C2: inactivity_streak[k] is inactivity_streak[k-1] + 1 when bucket k is
\* inactive and 0 when it is active; the first bucket's streak is 1 if it
\* is inactive and 0 otherwise.
C2_StreakRecurrence ==
    \A k \in 1..Len(hourly) :
        hourly[k].inactivity_streak =
            IF hourly[k].inactive = 0 THEN 0
            ELSE IF k = 1 THEN 1
            ELSE hourly[k - 1].inactivity_streak + 1

\* C3: each of the two logs holds at most one record per bucket hour, over
\* any sequence of ticks of one monitor run.
C3_AtMostOneRecordPerHour ==
    /\ \A i, j \in 1..Len(alerts_log) :
           alerts_log[i].alert_hour = alerts_log[j].alert_hour => i = j
    /\ \A i, j \in 1..Len(warnings_log) :
           warnings_log[i].warning_hour = warnings_log[j].warning_hour
           => i = j

\* C3 witness: the alerts loop has just run on a tick whose table has an
\* alert for an hour that the previous tick's table already had as alert.
C3_Witness ==
    /\ pc = "warnings"
    /\ last_processed_count >= 1
    /\ alerts_log # <<>>
    /\ LET previous == PreviousTable
       IN \E k \in 1..Len(hourly), j \in 1..Len(previous) :
              /\ hourly[k].alert
              /\ previous[j].alert
              /\ previous[j].hour = hourly[k].hour

\* C4: the table has exactly one bucket for each hour from the floor of
\* the earliest timestamp to the floor of the latest, ascending and one
\* hour apart; an hour without rows has total_power 0, active_devices 0.
C4_Completeness ==
    hourly # <<>> =>
        LET hours == {FloorHour(ProcessedRows[i].timestamp) :
                          i \in 1..Len(ProcessedRows)}
        IN /\ Len(hourly) = Max(hours) - Min(hours) + 1
           /\ hourly[1].hour = Min(hours)
           /\ hourly[Len(hourly)].hour = Max(hours)
           /\ \A k \in 2..Len(hourly) :
                  hourly[k].hour = hourly[k - 1].hour + 1
           /\ \A k \in 1..Len(hourly) :
                  hourly[k].hour \notin hours =>
                      /\ hourly[k].total_power = 0
                      /\ hourly[k].active_devices = 0

\* C4 witness: a table with a synthesized hour between two hours of rows.
C4_Witness ==
    /\ Len(hourly) >= 3
    /\ \E k \in 2..(Len(hourly) - 1) :
           \A i \in 1..Len(ProcessedRows) :
               FloorHour(ProcessedRows[i].timestamp) # hourly[k].hour

\* C5: with A = the model reports an anomaly and I = inactivity_streak >=
\* INACTIVITY_THRESHOLD_HOURS, a bucket is WARNING exactly when exactly
\* one of A, I holds and it is not EMERGENCY, NORMAL exactly when it is
\* neither WARNING nor EMERGENCY, and never has both flags set.
C5_Classification ==
    \A k \in 1..Len(hourly) :
        LET A == hourly[k].anomaly = -1
            I == hourly[k].inactivity_streak >= INACTIVITY_THRESHOLD_HOURS
        IN /\ hourly[k].warning <=> ((A # I) /\ ~hourly[k].alert)
           /\ Status(hourly[k]) = "WARNING"
                  <=> ((A # I) /\ Status(hourly[k]) # "EMERGENCY")
           /\ Status(hourly[k]) = "NORMAL"
                  <=> (~hourly[k].warning /\ ~hourly[k].alert)
           /\ ~(hourly[k].warning /\ hourly[k].alert)

\* C5 witness: one table with a NORMAL, a WARNING and an EMERGENCY bucket.
C5_Witness ==
    /\ \E k \in 1..Len(hourly) : Status(hourly[k]) = "NORMAL"
    /\ \E k \in 1..Len(hourly) : Status(hourly[k]) = "WARNING"
    /\ \E k \in 1..Len(hourly) : Status(hourly[k]) = "EMERGENCY"

\* C6: with a model that reports no anomaly, one active hour followed by
\* HARD_EMERGENCY_HOURS silent hours, delivered hour by hour, is classified
\* NORMAL up to the silent hour before INACTIVITY_THRESHOLD_HOURS, WARNING
\* from there up to the silent hour before HARD_EMERGENCY_HOURS, EMERGENCY
\* at silent hour HARD_EMERGENCY_HOURS, with exactly one record in the
\* alerts log.
C6_SilenceScenario ==
    (/\ model = "none"
     /\ Len(csv) = 1 + HARD_EMERGENCY_HOURS
     /\ csv[1].device # ""
     /\ \A i \in 2..Len(csv) : csv[i].device = ""
     /\ pc = "poll"
     /\ last_processed_count = Len(csv))
    => /\ Len(hourly) = 1 + HARD_EMERGENCY_HOURS
       /\ \A k \in 1..Len(hourly) :
              Status(hourly[k]) =
                  IF k - 1 < INACTIVITY_THRESHOLD_HOURS THEN "NORMAL"
                  ELSE IF k - 1 < HARD_EMERGENCY_HOURS THEN "WARNING"
                  ELSE "EMERGENCY"
       /\ Len(alerts_log) = 1

\* C8: when the file is extended by rows whose hours are all later than
\* hour h, the bucket of hour h derived from the extended file has the
\* same total_power, active_devices, inactivity_streak, warning and alert
\* as the bucket derived before the extension.
C8_PastBucketsUnaffected ==
    LET fresh == FreshTable
    IN \A k \in 1..Len(hourly) :
           (\A i \in (current_count + 1)..Len(csv) :
                FloorHour(csv[i].timestamp) > hourly[k].hour)
           => \E j \in 1..Len(fresh) :
                  /\ fresh[j].hour = hourly[k].hour
                  /\ fresh[j].total_power = hourly[k].total_power
                  /\ fresh[j].active_devices = hourly[k].active_devices
                  /\ fresh[j].inactivity_streak = hourly[k].inactivity_streak
                  /\ fresh[j].warning = hourly[k].warning
                  /\ fresh[j].alert = hourly[k].alert

\* C8 witness: the table ends with an inactive bucket and the file has
\* since been extended by a heartbeat row of a later hour.
C8_Witness ==
    /\ hourly # <<>>
    /\ hourly[Len(hourly)].inactive = 1
    /\ Len(csv) > current_count
    /\ \A i \in (current_count + 1)..Len(csv) :
           /\ FloorHour(csv[i].timestamp) > hourly[Len(hourly)].hour
           /\ csv[i].device = ""

\* A step of the poll at the top of the loop, the file being there.
PollStep == pc = "poll" /\ csv_exists /\ csv_exists' /\ csv' = csv

\* C9: a tick that finds the row count equal to last_processed_count
\* recomputes nothing and leaves the counter, the histories and the logs
\* alone; a tick that finds any other count, larger or smaller, runs the
\* pipeline on the whole file, and last_processed_count becomes that count.
C9_TickRunsUnlessCountEqual ==
    [][/\ (PollStep /\ Len(csv) = last_processed_count)
          => /\ pc' = "poll"
             /\ UNCHANGED <<hourly, last_processed_count, alert_history,
                            warning_history, alerts_log, warnings_log>>
       /\ (PollStep /\ Len(csv) # last_processed_count)
          => /\ pc' = "alerts"
             /\ hourly' = FreshTable
       /\ (pc = "status" /\ pc' = "poll")
          => last_processed_count' = current_count]_vars

\* The hours of the records a step appends to the alerts log.
AppendedAlertHours ==
    [i \in 1..(Len(alerts_log') - Len(alerts_log)) |->
        alerts_log'[Len(alerts_log) + i].alert_hour]

\* The hours of the records a step appends to the warnings log.
AppendedWarningHours ==
    [i \in 1..(Len(warnings_log') - Len(warnings_log)) |->
        warnings_log'[Len(warnings_log) + i].warning_hour]

\* C10 as claimed: a processing tick appends records only for the most
\* recent bucket of the table.
C10_OnlyLatestBucketNotified ==
    [][/\ (pc = "alerts" /\ pc' = "warnings")
          => \A i \in 1..Len(AppendedAlertHours) :
                 AppendedAlertHours[i]
                     = IsoFormat(hourly[Len(hourly)].hour)
       /\ (pc = "warnings" /\ pc' = "status")
          => \A i \in 1..Len(AppendedWarningHours) :
                 AppendedWarningHours[i]
                     = IsoFormat(hourly[Len(hourly)].hour)]_vars

\* The hours of the buckets flagged alert that have no entry in
\* alert_history, in table order.
UnnotifiedAlertHours ==
    LET New(row) ==
            /\ row.alert
            /\ \A i \in 1..Len(alert_history) :
                   alert_history[i].alert_hour # IsoFormat(row.hour)
        rows == SelectSeq(hourly, New)
    IN [i \in 1..Len(rows) |-> IsoFormat(rows[i].hour)]

\* The hours of the buckets flagged warning that have no entry in
\* warning_history, in table order.
UnnotifiedWarningHours ==
    LET New(row) ==
            /\ row.warning
            /\ \A i \in 1..Len(warning_history) :
                   warning_history[i].warning_hour # IsoFormat(row.hour)
        rows == SelectSeq(hourly, New)
    IN [i \in 1..Len(rows) |-> IsoFormat(rows[i].hour)]

\* C10 as amended: a processing tick appends one record for every bucket
\* of the table, the most recent or an older one, that is flagged and
\* whose hour is not yet in that severity's history, and no other record.
C10_EveryUnnotifiedBucketNotified ==
    [][/\ (pc = "alerts" /\ pc' = "warnings")
          => /\ SubSeq(alerts_log', 1, Len(alerts_log)) = alerts_log
             /\ AppendedAlertHours = UnnotifiedAlertHours
       /\ (pc = "warnings" /\ pc' = "status")
          => /\ SubSeq(warnings_log', 1, Len(warnings_log)) = warnings_log
             /\ AppendedWarningHours = UnnotifiedWarningHours]_vars

\* C10 witness: the first tick of the run has appended a warning record
\* for a bucket that is not the most recent one.
C10_Witness ==
    /\ pc = "status"
    /\ last_processed_count = 0
    /\ \E i \in 1..Len(warnings_log) :
           warnings_log[i].warning_hour # IsoFormat(hourly[Len(hourly)].hour)

\* A step of the monitor at the top of its loop: the file is as it was.
TickStep == pc = "poll" /\ UNCHANGED <<csv_exists, csv_header, csv>>

\* C11: process_data of a history with no data rows is the empty table,
\* and a tick that reads such a history goes back to polling: it appends
\* no record, changes no history and does not end the monitor.
C11_EmptyHistoryTick ==
    /\ process_data(<<>>) = <<>>
    /\ [][(TickStep /\ csv_exists /\ csv_header /\ csv = <<>>)
            => /\ pc' = "poll"
               /\ UNCHANGED <<alert_history, warning_history, alerts_log,
                              warnings_log>>]_vars

\* C11 witness: a tick has read a header-only file after an earlier tick
\* had processed rows.
C11_Witness ==
    /\ csv_exists /\ csv_header /\ csv = <<>>
    /\ pc = "poll"
    /\ current_count = 0
    /\ last_processed_count > 0

\* C13: a tick that finds the data file missing or without content
\* processes nothing, appends no record, and leaves the monitor polling.
C13_UnreadableFileSkipsTick ==
    [][(TickStep /\ (~csv_exists \/ ~csv_header))
          => /\ pc' = "poll"
             /\ UNCHANGED <<hourly, last_processed_count, alert_history,
                            warning_history, alerts_log, warnings_log>>]_vars

\* The rows of d whose timestamp can be parsed.
ParsableRows(d) ==
    LET Good(row) == row.timestamp # Unparsable
    IN SelectSeq(d, Good)

\* C14: a tick that finds new rows of which one has an unparsable
\* timestamp drops that row, derives the table from all the other rows
\* and goes on to the notifications.
C14_BadRowIsDropped ==
    [][(/\ TickStep /\ csv_exists /\ csv_header
        /\ HasNewData(Len(csv), last_processed_count)
        /\ ToDatetimeRaises(csv))
          => /\ pc' = "alerts"
             /\ hourly' = run_inference(process_data(ParsableRows(csv)),
                                        model)]_vars

\* The hours in which the processed rows are heartbeats only.
HeartbeatOnlyHours ==
    {h \in {FloorHour(ProcessedRows[i].timestamp) :
                i \in 1..Len(ProcessedRows)} :
        \A i \in 1..Len(ProcessedRows) :
            FloorHour(ProcessedRows[i].timestamp) = h
            => ProcessedRows[i].device = ""}

\* The processed rows without those of hour h.
RowsOutsideHour(h) ==
    LET Other(row) == FloorHour(row.timestamp) # h
    IN SelectSeq(ProcessedRows, Other)

\* C12: an hour whose only rows are heartbeats has a bucket, also as the
\* last hour of the table, with active_devices 0 and total_power 0; the
\* bucket is inactive and counts in the streak; and when the hour lies
\* between two hours of rows, the table is the one derived without the
\* heartbeat rows, where the hour has no rows at all.
C12_HeartbeatHourIsInactiveBucket ==
    hourly # <<>> =>
        \A h \in HeartbeatOnlyHours :
            /\ \E k \in 1..Len(hourly) :
                   /\ hourly[k].hour = h
                   /\ hourly[k].active_devices = 0
                   /\ hourly[k].total_power = 0
                   /\ hourly[k].inactive = 1
                   /\ hourly[k].inactivity_streak >= 1
            /\ (hourly[1].hour < h /\ h < hourly[Len(hourly)].hour)
                   => hourly = run_inference(process_data(RowsOutsideHour(h)),
                                             model)

\* C12 witness: a table of three hours whose middle and last hour have
\* heartbeat rows only.
C12_Witness ==
    /\ Len(hourly) = 3
    /\ hourly[2].hour \in HeartbeatOnlyHours
    /\ hourly[3].hour \in HeartbeatOnlyHours

\* C18: a bucket hour that has a record in the warnings log is WARNING,
\* and one that has a record in the alerts log is EMERGENCY, in the table
\* of every later tick of the run.
C18_NotifiedBucketKeepsSeverity ==
    /\ \A i \in 1..Len(warnings_log) :
           \E k \in 1..Len(hourly) :
               /\ IsoFormat(hourly[k].hour) = warnings_log[i].warning_hour
               /\ Status(hourly[k]) = "WARNING"
    /\ \A i \in 1..Len(alerts_log) :
           \E k \in 1..Len(hourly) :
               /\ IsoFormat(hourly[k].hour) = alerts_log[i].alert_hour
               /\ Status(hourly[k]) = "EMERGENCY"

\* C19: the alerts loop appends a record for every alert bucket whose hour
\* is not in alert_history, whether or not warning_history has that hour;
\* the warnings loop appends a record for every warning bucket whose hour
\* is not in warning_history, whether or not alert_history has that hour.
C19_DedupPerSeverity ==
    [][/\ (pc = "alerts" /\ pc' = "warnings")
          => \A k \in 1..Len(hourly) :
                 (/\ hourly[k].alert
                  /\ \A i \in 1..Len(alert_history) :
                         alert_history[i].alert_hour
                             # IsoFormat(hourly[k].hour))
                 => \E i \in (Len(alerts_log) + 1)..Len(alerts_log') :
                        alerts_log'[i].alert_hour = IsoFormat(hourly[k].hour)
       /\ (pc = "warnings" /\ pc' = "status")
          => \A k \in 1..Len(hourly) :
                 (/\ hourly[k].warning
                  /\ \A i \in 1..Len(warning_history) :
                         warning_history[i].warning_hour
                             # IsoFormat(hourly[k].hour))
                 => \E i \in (Len(warnings_log) + 1)..Len(warnings_log') :
                        warnings_log'[i].warning_hour
                            = IsoFormat(hourly[k].hour)]_vars

\* C19 witness: the warnings loop has just appended a record for an hour
\* that already has a record in the alerts log.
C19_Witness ==
    /\ pc = "status"
    /\ warnings_log # <<>>
    /\ \E i \in 1..Len(alerts_log) :
           alerts_log[i].alert_hour
               = warnings_log[Len(warnings_log)].warning_hour
    /\ \E k \in 1..Len(hourly) :
           /\ hourly[k].warning
           /\ IsoFormat(hourly[k].hour)
                  = warnings_log[Len(warnings_log)].warning_hour

\* C15: when the log file does not hold JSON at the moment a record is
\* due, the notifier goes on with an empty list, leaves the file as it is
\* at that step, and the monitor keeps running.
C15_MalformedLogTreatedAsEmpty ==
    [][/\ (pc = "alert_read" /\ JsonLoadRaises(log_text.alerts)
           /\ pc' # "dead")
          => /\ pc' = "alert_open"
             /\ loaded' = <<alert_data(hourly[idx])>>
             /\ UNCHANGED <<alerts_log, log_text>>
       /\ (pc = "warning_read" /\ JsonLoadRaises(log_text.warnings)
           /\ pc' # "dead")
          => /\ pc' = "warning_open"
             /\ loaded' = <<warning_data(hourly[idx])>>
             /\ UNCHANGED <<warnings_log, log_text>>]_vars

\* C16: a completed log_alert or log_warning call leaves the file with
\* the content it had before the call and one record more at the end.
\* Loading leaves the file alone; when the file is about to be opened for
\* writing, the list in memory is the file's content followed by the
\* record of the call; the list stays as it is until it is written; the
\* write makes it the file's content.
C16_CallAppendsOneRecord ==
    [][/\ pc = "alert_open"
          => /\ loaded = Append(alerts_log, alert_history[Len(alert_history)])
             /\ pc' = "alert_dump" => loaded' = loaded
       /\ (pc = "alert_dump" /\ pc' = "alerts")
          => /\ alerts_log' = loaded
             /\ log_text'.alerts = "json"
       /\ pc = "warning_open"
          => /\ loaded = Append(warnings_log,
                                warning_history[Len(warning_history)])
             /\ pc' = "warning_dump" => loaded' = loaded
       /\ (pc = "warning_dump" /\ pc' = "warnings")
          => /\ warnings_log' = loaded
             /\ log_text'.warnings = "json"
       /\ pc = "alert_read" => UNCHANGED alerts_log
       /\ pc = "warning_read" => UNCHANGED warnings_log
      ]_vars

\* C16 witness: a log_alert call has completed on a log that held a
\* record before it.
C16_Witness ==
    /\ pc = "alerts"
    /\ idx > 0
    /\ Len(alerts_log) >= 2
    /\ alert_history # <<>>
    /\ alerts_log[Len(alerts_log)] = alert_history[Len(alert_history)]
    /\ log_text.alerts = "json"

\* What the log file held when the call in progress began.
AlertsLogBeforeCall ==
    IF pc = "alert_read" THEN alerts_log
    ELSE SubSeq(loaded, 1, Len(loaded) - 1)

\* What the log file held when the call in progress began.
WarningsLogBeforeCall ==
    IF pc = "warning_read" THEN warnings_log
    ELSE SubSeq(loaded, 1, Len(loaded) - 1)

\* C17: when the monitor is terminated during log_alert or log_warning,
\* the log file is readable afterwards and holds every record it held
\* before the call.
C17_TerminationKeepsLog ==
    [][/\ (pc \in {"alert_read", "alert_open", "alert_dump"}
           /\ pc' = "dead")
          => /\ ~JsonLoadRaises(log_text'.alerts)
             /\ Len(alerts_log') >= Len(AlertsLogBeforeCall)
             /\ SubSeq(alerts_log', 1, Len(AlertsLogBeforeCall))
                    = AlertsLogBeforeCall
       /\ (pc \in {"warning_read", "warning_open", "warning_dump"}
           /\ pc' = "dead")
          => /\ ~JsonLoadRaises(log_text'.warnings)
             /\ Len(warnings_log') >= Len(WarningsLogBeforeCall)
             /\ SubSeq(warnings_log', 1, Len(WarningsLogBeforeCall))
                    = WarningsLogBeforeCall]_vars

\* Whether a log holds a record for an hour of the anomaly period.
AnomalyNotified ==
    \E h \in injector.anomaly_start..(injector.anomaly_end - 1) :
        \/ \E i \in 1..Len(alerts_log) :
               alerts_log[i].alert_hour = IsoFormat(h)
        \/ \E i \in 1..Len(warnings_log) :
               warnings_log[i].warning_hour = IsoFormat(h)

\* C20: when the injector appends its first row with a timestamp at or
\* after anomaly_end, a log already holds a WARNING or EMERGENCY record
\* for an hour of [anomaly_start, anomaly_end).
C20_DetectedDuringAnomaly ==
    [][(/\ injector.pc = "run"
        /\ Len(csv') = Len(csv) + 1
        /\ FloorHour(csv'[Len(csv')].timestamp) >= injector.anomaly_end
        /\ \A i \in 1..Len(csv) :
               FloorHour(csv[i].timestamp) < injector.anomaly_end)
          => AnomalyNotified]_vars

\* C27: on every bucket of the table, the monitor's test
\* inactivity_streak >= INACTIVITY_THRESHOLD_HOURS (a rolling sum over
\* that window) is true exactly when the count of consecutive inactive
\* buckets ending at the bucket is at least INACTIVITY_THRESHOLD_HOURS.
C27_StreakTestIsConsecutiveCount ==
    LET h == hourly
    IN \A k \in 1..Len(h) :
           (h[k].inactivity_streak >= INACTIVITY_THRESHOLD_HOURS)
               <=> (ConsecutiveInactive(h, k) >= INACTIVITY_THRESHOLD_HOURS)

\* A table where the rolling sum and the consecutive count differ as
\* numbers on both sides of the threshold: a run longer than the window,
\* and a bucket whose window holds inactive buckets that are not a run.
C27_Witness ==
    LET h == hourly
    IN /\ \E k \in 1..Len(h) :
              /\ h[k].inactivity_streak >= INACTIVITY_THRESHOLD_HOURS
              /\ ConsecutiveInactive(h, k) > INACTIVITY_THRESHOLD_HOURS
       /\ \E k \in 1..Len(h) :
              /\ h[k].inactivity_streak = INACTIVITY_THRESHOLD_HOURS - 1
              /\ ConsecutiveInactive(h, k) < h[k].inactivity_streak

\* C28: for the rows the monitor has processed, the feature vector of
\* every bucket of the monitor's table (its inactivity_streak included)
\* equals the feature vector train.py and inter.py derive for that bucket
\* from the same rows.
C28_SameFeaturesAsTraining ==
    LET h == hourly
        t == train_hourly(ProcessedRows)
        b == inter_hourly(ProcessedRows)
    IN Len(h) = Len(t) =>
           \A k \in 1..Len(h) :
               /\ FEATURES(h[k]) = FEATURES(t[k])
               /\ FEATURES(h[k]) = FEATURES(b[k])

\* C29: at every point of a monitor run outside a call of log_alert or
\* log_warning, the point at which the run is interrupted or ends
\* included, every entry of alert_history (of warning_history) for an hour
\* has a record for that hour in the alert (warning) log file.
C29_HistoryNeverAheadOfLog ==
    pc \notin {"alert_read", "alert_open", "alert_dump",
               "warning_read", "warning_open", "warning_dump"}
    => /\ \A i \in 1..Len(alert_history) :
              \E j \in 1..Len(alerts_log) :
                  alerts_log[j].alert_hour = alert_history[i].alert_hour
       /\ \A i \in 1..Len(warning_history) :
              \E j \in 1..Len(warnings_log) :
                  warnings_log[j].warning_hour
                      = warning_history[i].warning_hour

\* C22: when inject_future_anomaly plans the period, anomaly_start is
\* strictly later than the last timestamp of the file, and the first
\* entry of the appended timeline is not later than anomaly_start, so
\* that [anomaly_start, anomaly_end) lies after the existing data and
\* covers its full duration of appended timeline.
C22_AnomalyStartsAfterLastEntry ==
    [][(injector.pc = "off" /\ injector'.pc = "run")
       => LET anomaly_start ==
                  [hour |-> injector'.anomaly_start, minute |-> 0]
          IN /\ ~NotLater(anomaly_start, MaxTimestamp(csv))
             /\ NotLater(injector'.current_time, anomaly_start)]_vars

\* C30: after any sequence of sim.py, 2hrs_ano.py and conf_em.py runs, one
\* at a time on the same file, the timestamps of the rows are
\* non-decreasing in file order.
C30_TimestampsNonDecreasing ==
    \A i \in 1..(Len(csv) - 1) :
        NotLater(csv[i].timestamp, csv[i + 1].timestamp)

\* The file holds the rows of two runs: the starter row and the heartbeat
\* entries of conf_em.py, after them a row of a 2hrs_ano.py run that has
\* passed its anomaly period.
C30_Witness ==
    /\ producer.running = "ano_sequence"
    /\ \E i \in 1..Len(csv), j \in 1..Len(csv), k \in 1..Len(csv) :
           /\ i < j /\ j < k
           /\ csv[i].device = "bedroom_light"
           /\ csv[j].device = ""
           /\ csv[k].device = "tv"
           /\ FloorHour(csv[k].timestamp) >= injector.anomaly_end

\* The hours covered by heartbeat entries.
HeartbeatEntryHours ==
    {FloorHour(csv[i].timestamp) :
         i \in {j \in 1..Len(csv) : csv[j].device = ""}}

\* C21: once force_emergency has appended its heartbeat entries after a
\* row with device activity and the monitor has completed a tick that
\* processed them, the alert log holds an EMERGENCY record for an hour
\* covered by those entries, whatever the loaded model reports.
C21_ForcedEmergencyIsAlerted ==
    (/\ csv # <<>>
     /\ csv[Len(csv)].device = ""
     /\ \E i \in 1..(Len(csv) - 1) :
            csv[i].device # "" /\ csv[i + 1].device = ""
     /\ pc = "poll"
     /\ last_processed_count = Len(csv))
    => \E j \in 1..Len(alerts_log), h \in HeartbeatEntryHours :
           alerts_log[j].alert_hour = IsoFormat(h)

\* C23: while a sequence has its injector subprocess running, no child of
\* the dashboard running sim.py is alive.
C23_NoSimWhileInjectorRuns ==
    (\E t \in Threads : app.threads[t].pc = "script_running")
    => ~\E c \in app.children : c.key = "sim"

\* The sequence threads that are executing the body of their function.
ThreadsInBody(a) == {t \in Threads : InBody(a.threads[t])}

\* C24: at most one of run_sequence_logic and run_conf_em_logic executes
\* its body at a time; sequence_lock is held exactly while one does, so it
\* is released on every way out of the body; and a sequence that finds the
\* lock held returns without stopping sim and without starting a script.
C24_OneSequenceAtATime ==
    [][/\ Cardinality(ThreadsInBody(app')) <= 1
       /\ app'.sequence_lock = (ThreadsInBody(app') # {})
       /\ \A t \in Threads :
              (/\ app.threads[t].pc = "acquire"
               /\ app.sequence_lock
               /\ app'.threads[t] # app.threads[t])
              => /\ app'.threads[t].pc = "idle"
                 /\ app'.threads[t].result = "skipped"
                 /\ app'.processes = app.processes
                 /\ app'.children = app.children
                 /\ app'.spawned = app.spawned
                 /\ app'.sequence_lock]_vars

\* A sequence was triggered and skipped while another has its injector
\* running, after an earlier sequence had restarted sim.
C24_Witness ==
    \E t \in Threads, u \in Threads :
        /\ app.threads[t].pc = "script_running"
        /\ app.threads[u].result = "skipped"
        /\ app.spawned > 0

\* C25: for every script key at most one child process is alive, and
\* every child alive is the one processes[key] refers to, or the one a
\* start_script call is about to store there.
C25_OneTrackedChildPerKey ==
    /\ \A key \in ScriptKeys :
           Cardinality({c \in app.children : c.key = key}) <= 1
    /\ \A c \in app.children :
           \/ app.processes[c.key] = c.pid
           \/ \E t \in Threads :
                  /\ app.threads[t].pc = "start_assign"
                  /\ app.threads[t].proc = c.pid

\* C26: a request of /api/data served while the monitor rewrites a log
\* returns a response; a log that is missing, empty or partly written
\* contributes no entry, a complete log contributes its records.
C26_GetDataAlwaysResponds ==
    [][app'.response # app.response
       => /\ app'.response.status = 200
          /\ app'.response.alerts =
                 (IF log_text.alerts = "json" THEN Len(alerts_log) ELSE 0)
          /\ app'.response.warnings =
                 (IF log_text.warnings = "json" THEN Len(warnings_log)
                  ELSE 0)
          /\ app'.response.total_anomalies =
                 app'.response.alerts + app'.response.warnings]_vars

\* A request found the warning log partly written, in the middle of
\* log_warning rewriting a log that held records, and returned the
\* records of the alert log alone.
C26_Witness ==
    /\ pc = "warning_dump"
    /\ Len(loaded) >= 2
    /\ app.response.status = 200
    /\ app.response.content.warnings = "partial"
    /\ app.response.warnings = 0
    /\ app.response.alerts > 0

=============================================================================
